---- MODULE Spec2Model ----
(***************************************************************************)
(* Model of the location tracker backend in server.js: the Location and    *)
(* PathHistory collections, the REST routes, the Socket.IO handlers, the   *)
(* rooms used for selective fan-out and the cleanup jobs.                  *)
(*                                                                         *)
(* Every `await` of a handler is a scheduling point: a handler is split    *)
(* into the steps between its awaits, and the store applies an operation   *)
(* in a step of its own.  `new Date()` reads the variable now at the step  *)
(* that builds the arguments of the store call.                            *)
(*                                                                         *)
(* Time is in milliseconds.  The clock moves by one millisecond at any     *)
(* moment, and by 24 hours only while no store operation is outstanding:   *)
(* a store call completes or fails long before a day has passed.           *)
(*                                                                         *)
(* An HTTP response is an output, not state: the routes that only read     *)
(* are operators on the state (LocationResponse, PathResponse), and a      *)
(* request that validation rejects on the REST route leaves the state as   *)
(* it is.  What a socket receives is recorded in inbox.                    *)
(*                                                                         *)
(* Spec covers the stores (updates through the REST route, deactivation,   *)
(* cleanup, the clock), SpecPush the sockets and rooms with both entry     *)
(* points of the update pipeline, SpecCap the cap of the trail.            *)
(***************************************************************************)
EXTENDS Integers, Sequences, FiniteSets, TLC

\* ------------------------------------------------------------ bounds ----
MaxInFlight == 2      \* update handlers suspended at an await at one time
MaxUpdates  == 2      \* accepted updates in one behaviour of Spec
MaxRejects  == 1      \* rejected updates delivered as socket errors
MaxMs       == 1      \* one-millisecond clock steps
MaxDays     == 1      \* 24-hour clock steps
MaxFails    == 1      \* store operations that fail
MaxSubs     == 2      \* subscribe and unsubscribe messages
MaxPushConns == 2     \* connection and disconnection events in SpecPush
MaxJobs     == 1      \* cleanup runs suspended at an await at one time
MaxCapConns == 1      \* connection events in SpecCap
MaxPushUpdates == 1   \* accepted updates in one behaviour of SpecPush
MaxPushInFlight == 1  \* update handlers suspended at one time in SpecPush
CapExtra    == 2      \* updates beyond SliceCap in one behaviour of SpecCap

\* --------------------------------------------------- program constants ----
SliceCap == 1000
DayMs    == 24 * 60 * 60 * 1000
HourMs   == 60 * 60 * 1000
RecentMs == 30000
DefaultHours == 2

Track == {"T1", "T2"}
Conn  == {"c1", "c2"}
Req   == 1..MaxInFlight

\* ------------------------------------------------------- JavaScript values
Num(x) == [k |-> "number", n |-> x, s |-> ""]
Str(x) == [k |-> "string", n |-> 0, s |-> x]
Undef  == [k |-> "undefined", n |-> 0, s |-> ""]
Null   == [k |-> "null", n |-> 0, s |-> ""]

\* !v
Falsy(v) == \/ v.k \in {"undefined", "null"}
            \/ v.k = "number" /\ v.n = 0
            \/ v.k = "string" /\ v.s = ""

\* the number a relational operator compares (null converts to 0)
ToNumber(v) == IF v.k = "number" THEN v.n ELSE 0

\* v || 0
OrZero(v) == IF Falsy(v) THEN Num(0) ELSE v

In(tid, lat, lng, speed, accuracy) ==
    [trackId |-> tid, lat |-> lat, lng |-> lng, speed |-> speed, accuracy |-> accuracy]

\* request bodies: one accepted body per track, and the rejected ones
BaseInputs ==
    { In(Str("T1"), Num(37), Num(-122), Undef, Undef),
      In(Str("T2"), Null, Num(-180), Num(-5), Null),
      In(Str(""), Num(37), Num(-122), Undef, Undef),
      In(Undef, Num(37), Num(-122), Undef, Undef),
      In(Str("T1"), Undef, Num(-122), Undef, Undef),
      In(Str("T1"), Num(37), Undef, Num(5), Undef),
      In(Str("T1"), Num(91), Num(-122), Undef, Undef),
      In(Str("T1"), Num(-91), Num(-122), Undef, Undef),
      In(Str("T2"), Num(37), Num(181), Undef, Undef),
      In(Str("T2"), Num(37), Num(-181), Undef, Undef) }

\* with a second accepted body for T1, on the bounds of the coordinate ranges
Inputs == BaseInputs \cup { In(Str("T1"), Num(-90), Num(180), Num(5), Num(3)) }

\* ------------------------------------------------------------- state ----
VARIABLES
    now,        \* Date.now()
    nextTick,   \* time at which the setInterval callback is due
    locs,       \* Location collection: trackId -> document or NoDoc
    paths,      \* PathHistory collection: trackId -> document or NoDoc
    connected,  \* sockets of io
    rooms,      \* members of room track:{trackId}
    inbox,      \* events delivered to each socket, in order
    reqs,       \* update handlers suspended at an await
    jobs,       \* cleanup runs suspended at an await
    hist,       \* per track: the points appended since the document was created
    cnt         \* how often each bounded kind of step was taken

vars == <<now, nextTick, locs, paths, connected, rooms, inbox, reqs, jobs, hist, cnt>>

NoDoc == [exists |-> FALSE]

IdleReq == [pc |-> "idle"]
IdleJob == [pc |-> "idle"]
Job == {"manual", "auto"}

Init ==
    /\ now = DayMs
    /\ nextTick = DayMs + HourMs
    /\ locs = [t \in Track |-> NoDoc]
    /\ paths = [t \in Track |-> NoDoc]
    /\ connected = {}
    /\ rooms = [t \in Track |-> {}]
    /\ inbox = [c \in Conn |-> <<>>]
    /\ reqs = [r \in Req |-> IdleReq]
    /\ jobs = [j \in Job |-> IdleJob]
    /\ hist = [t \in Track |-> <<>>]
    /\ cnt = [updates |-> 0, rejects |-> 0, ms |-> 0, days |-> 0, fails |-> 0,
              subs |-> 0, conns |-> 0]

InFlight == {r \in Req : reqs[r].pc # "idle"}
Running == {j \in Job : jobs[j].pc # "idle"}
Quiet == InFlight = {} /\ Running = {}

\* the slot a new handler takes
FreeReq == CHOOSE r \in Req : reqs[r].pc = "idle" /\ \A q \in Req : reqs[q].pc = "idle" => r <= q

\* ------------------------------------------------------------- clock ----
TickMs ==
    /\ now' = now + 1
    /\ cnt' = [cnt EXCEPT !.ms = @ + 1]
    /\ UNCHANGED <<nextTick, locs, paths, connected, rooms, inbox, reqs, jobs, hist>>

TickDay ==
    /\ Quiet
    /\ now' = now + DayMs
    /\ cnt' = [cnt EXCEPT !.days = @ + 1]
    /\ UNCHANGED <<nextTick, locs, paths, connected, rooms, inbox, reqs, jobs, hist>>

\* -------------------------------------------------------- validation ----
RestMissing(d) == Falsy(d.trackId) \/ d.lat = Undef \/ d.lng = Undef

\* RestOutOfRange without the upper bound of lat
RestOutOfRangeNoUpper(d) ==
    \/ ToNumber(d.lat) < -90
    \/ ToNumber(d.lng) < -180 \/ ToNumber(d.lng) > 180

RestOutOfRange(d) ==
    \/ ToNumber(d.lat) < -90 \/ ToNumber(d.lat) > 90
    \/ ToNumber(d.lng) < -180 \/ ToNumber(d.lng) > 180

SocketMissing(d) == Falsy(d.trackId) \/ d.lat = Undef \/ d.lng = Undef

SocketOutOfRange(d) ==
    \/ ToNumber(d.lat) < -90 \/ ToNumber(d.lat) > 90
    \/ ToNumber(d.lng) < -180 \/ ToNumber(d.lng) > 180


RestAccepts(d) == ~RestMissing(d) /\ ~RestOutOfRange(d)
SocketAccepts(d) == ~SocketMissing(d) /\ ~SocketOutOfRange(d)

\* ------------------------------------------------------------- store ----
\* the fields an update document sets replace those of the base document
SetFields(base, upd) ==
    [f \in DOMAIN base |-> IF f \in DOMAIN upd THEN upd[f] ELSE base[f]]

\* a Location document as the schema creates it on an upsert
LocationDefaults(at) ==
    [exists |-> TRUE, lat |-> Undef, lng |-> Undef, speed |-> Num(0),
     accuracy |-> Num(0), timestamp |-> at, isActive |-> TRUE]

\* a PathHistory document as the schema creates it on an upsert
PathDefaults(at) == [exists |-> TRUE, points |-> <<>>, lastUpdated |-> at]

\* Location.findOneAndUpdate(filter, upd, {upsert: true})
UpsertLocation(old, upd, at) ==
    SetFields(IF old.exists THEN old ELSE LocationDefaults(at), upd)

\* PushSlice without the $slice modifier
PushNoSlice(points, pt) == Append(points, pt)

\* PushSlice with $slice: SliceCap, which keeps the first elements
PushSliceHead(points, pt) ==
    LET s == Append(points, pt)
    IN  IF Len(s) > SliceCap THEN SubSeq(s, 1, SliceCap) ELSE s

\* $push with $each: [pt] and $slice: -SliceCap
PushSlice(points, pt) ==
    LET s == Append(points, pt)
    IN  IF Len(s) > SliceCap THEN SubSeq(s, Len(s) - SliceCap + 1, Len(s)) ELSE s

\* UpsertPath with $set of the points instead of $push
UpsertPathSet(old, upd, at) ==
    LET base == IF old.exists THEN old ELSE PathDefaults(at)
    IN  [base EXCEPT !.points = <<upd.point>>, !.lastUpdated = upd.lastUpdated]

\* PathHistory.findOneAndUpdate(filter, {$push, lastUpdated}, {upsert: true})
UpsertPath(old, upd, at) ==
    LET base == IF old.exists THEN old ELSE PathDefaults(at)
    IN  [base EXCEPT !.points = PushSlice(@, upd.point), !.lastUpdated = upd.lastUpdated]

\* pathHistorySchema.pre('save'): runs on document.save() only
PreSave(doc, at) ==
    [doc EXCEPT !.points = SelectSeq(@, LAMBDA p : p.timestamp > at - DayMs)]

\* ---------------------------------------------------- update documents ----
\* RestLocationUpdate without the defaults of speed and accuracy
RestLocationUpdateRaw(d, at) ==
    [lat |-> d.lat, lng |-> d.lng, speed |-> d.speed,
     accuracy |-> d.accuracy, timestamp |-> at, isActive |-> TRUE]

\* RestLocationUpdate without isActive
RestLocationUpdateKeep(d, at) ==
    [lat |-> d.lat, lng |-> d.lng, speed |-> OrZero(d.speed),
     accuracy |-> OrZero(d.accuracy), timestamp |-> at]

RestLocationUpdate(d, at) ==
    [lat |-> d.lat, lng |-> d.lng, speed |-> OrZero(d.speed),
     accuracy |-> OrZero(d.accuracy), timestamp |-> at, isActive |-> TRUE]

SocketLocationUpdate(d, at) ==
    [lat |-> d.lat, lng |-> d.lng, speed |-> OrZero(d.speed),
     accuracy |-> OrZero(d.accuracy), timestamp |-> at, isActive |-> TRUE]

RestPathUpdate(d, at) ==
    [point |-> [lat |-> d.lat, lng |-> d.lng, timestamp |-> at], lastUpdated |-> at]

SocketPathUpdate(d, at) ==
    [point |-> [lat |-> d.lat, lng |-> d.lng, timestamp |-> at], lastUpdated |-> at]

\* ---------------------------------------------------------- delivery ----
\* the payload of a location event
UpdateData(d, at) ==
    [trackId |-> d.trackId.s, lat |-> d.lat, lng |-> d.lng, speed |-> OrZero(d.speed),
     accuracy |-> OrZero(d.accuracy), timestamp |-> at]

\* chan records the emit call that produced the message; a client sees ev and data
Msg(ev, chan, data) == [ev |-> ev, chan |-> chan, data |-> data]

ErrorMsg(message) == Msg("error", "self", [message |-> message])

\* emit to the sockets of targets that are connected
Deliver(ib, targets, m) ==
    [c \in Conn |-> IF c \in targets \cap connected THEN Append(ib[c], m) ELSE ib[c]]

\* the emits of the REST route
RestPublish(ib, d, at) ==
    LET a == Deliver(ib, Conn, Msg("location:updated", "global", UpdateData(d, at)))
    IN  Deliver(a, Conn, Msg("location:" \o d.trackId.s, "legacy", UpdateData(d, at)))

\* the emits of the socket handler
SocketPublish(ib, d, at) ==
    LET a == Deliver(ib, Conn, Msg("location:updated", "global", UpdateData(d, at)))
        b == Deliver(a, rooms[d.trackId.s], Msg("location:updated", "room", UpdateData(d, at)))
    IN  Deliver(b, Conn, Msg("location:" \o d.trackId.s, "legacy", UpdateData(d, at)))

\* ------------------------------------------------- update handlers ----
NewReq(via, c, d, upd) ==
    [pc |-> "pos", via |-> via, conn |-> c, d |-> d, locUpd |-> upd,
     pathUpd |-> NoDoc, location |-> NoDoc]

\* POST /api/location/update, up to the first await
RestUpdate(d) ==
    /\ IF RestMissing(d)
         THEN UNCHANGED <<reqs, cnt>>
         ELSE IF RestOutOfRange(d)
         THEN UNCHANGED <<reqs, cnt>>
         ELSE /\ InFlight # Req
              /\ reqs' = [reqs EXCEPT ![FreeReq] =
                             NewReq("rest", "none", d, RestLocationUpdate(d, now))]
              /\ cnt' = [cnt EXCEPT !.updates = @ + 1]
    /\ UNCHANGED <<now, nextTick, locs, paths, connected, rooms, inbox, jobs, hist>>

\* socket.on('location:update'), up to the first await
SocketUpdate(c, d) ==
    /\ c \in connected
    /\ IF SocketMissing(d)
         THEN /\ inbox' = Deliver(inbox, {c}, ErrorMsg("Missing required fields"))
              /\ cnt' = [cnt EXCEPT !.rejects = @ + 1]
              /\ UNCHANGED reqs
         ELSE IF SocketOutOfRange(d)
         THEN /\ inbox' = Deliver(inbox, {c}, ErrorMsg("Invalid coordinates"))
              /\ cnt' = [cnt EXCEPT !.rejects = @ + 1]
              /\ UNCHANGED reqs
         ELSE /\ InFlight # Req
              /\ reqs' = [reqs EXCEPT ![FreeReq] =
                             NewReq("socket", c, d, SocketLocationUpdate(d, now))]
              /\ cnt' = [cnt EXCEPT !.updates = @ + 1]
              /\ UNCHANGED inbox
    /\ UNCHANGED <<now, nextTick, locs, paths, connected, rooms, jobs, hist>>

\* the store applies the Location upsert of handler r
PosApply(r) ==
    /\ reqs[r].pc = "pos"
    /\ LET t == reqs[r].d.trackId.s
           doc == UpsertLocation(locs[t], reqs[r].locUpd, now)
       IN  /\ locs' = [locs EXCEPT ![t] = doc]
           /\ reqs' = [reqs EXCEPT ![r].pc = "posok", ![r].location = doc]
    /\ UNCHANGED <<now, nextTick, paths, connected, rooms, inbox, jobs, hist, cnt>>

\* handler r resumes and calls PathHistory.findOneAndUpdate
TrailIssue(r) ==
    /\ reqs[r].pc = "posok"
    /\ reqs' = [reqs EXCEPT ![r].pc = "trail",
                            ![r].pathUpd = IF reqs[r].via = "rest"
                                             THEN RestPathUpdate(reqs[r].d, now)
                                             ELSE SocketPathUpdate(reqs[r].d, now)]
    /\ UNCHANGED <<now, nextTick, locs, paths, connected, rooms, inbox, jobs, hist, cnt>>

\* the store applies the PathHistory update of handler r
TrailApply(r) ==
    /\ reqs[r].pc = "trail"
    /\ LET t == reqs[r].d.trackId.s
       IN  /\ paths' = [paths EXCEPT ![t] = UpsertPath(@, reqs[r].pathUpd, now)]
           /\ hist' = [hist EXCEPT ![t] = Append(@, reqs[r].pathUpd.point)]
    /\ reqs' = [reqs EXCEPT ![r].pc = "trailok"]
    /\ UNCHANGED <<now, nextTick, locs, connected, rooms, inbox, jobs, cnt>>

\* RestEmit that does not wait for the PathHistory write
RestEmitEarly(r) ==
    /\ reqs[r].pc \in {"trail", "trailok"}
    /\ reqs[r].via = "rest"
    /\ inbox' = RestPublish(inbox, reqs[r].d, now)
    /\ reqs' = [reqs EXCEPT ![r] = IdleReq]
    /\ UNCHANGED <<now, nextTick, locs, paths, connected, rooms, jobs, hist, cnt>>

\* the REST route resumes after both writes: emits and responds
RestEmit(r) ==
    /\ reqs[r].pc = "trailok"
    /\ reqs[r].via = "rest"
    /\ inbox' = RestPublish(inbox, reqs[r].d, now)
    /\ reqs' = [reqs EXCEPT ![r] = IdleReq]
    /\ UNCHANGED <<now, nextTick, locs, paths, connected, rooms, jobs, hist, cnt>>

\* the socket handler resumes after both writes: emits
SocketEmit(r) ==
    /\ reqs[r].pc = "trailok"
    /\ reqs[r].via = "socket"
    /\ inbox' = SocketPublish(inbox, reqs[r].d, now)
    /\ reqs' = [reqs EXCEPT ![r] = IdleReq]
    /\ UNCHANGED <<now, nextTick, locs, paths, connected, rooms, jobs, hist, cnt>>

\* a store call of the REST route rejects: catch block
RestStoreFail(r) ==
    /\ reqs[r].pc \in {"pos", "trail"}
    /\ reqs[r].via = "rest"
    /\ reqs' = [reqs EXCEPT ![r] = IdleReq]
    /\ cnt' = [cnt EXCEPT !.fails = @ + 1]
    /\ UNCHANGED <<now, nextTick, locs, paths, connected, rooms, inbox, jobs, hist>>

\* a store call of the socket handler rejects: catch block
SocketStoreFail(r) ==
    /\ reqs[r].pc \in {"pos", "trail"}
    /\ reqs[r].via = "socket"
    /\ inbox' = Deliver(inbox, {reqs[r].conn}, ErrorMsg("store"))
    /\ reqs' = [reqs EXCEPT ![r] = IdleReq]
    /\ cnt' = [cnt EXCEPT !.fails = @ + 1]
    /\ UNCHANGED <<now, nextTick, locs, paths, connected, rooms, jobs, hist>>


\* ------------------------------------------------------ subscriptions ----
\* JoinRoom that toggles the membership
JoinRoomToggle(members, c) == IF c \in members THEN members \ {c} ELSE members \cup {c}

\* socket.join: the members of a room are a set
JoinRoom(members, c) == members \cup {c}

\* socket.leave
LeaveRoom(members, c) == members \ {c}

\* io.on('connection')
Connect(c) ==
    /\ c \notin connected
    /\ connected' = connected \cup {c}
    /\ cnt' = [cnt EXCEPT !.conns = @ + 1]
    /\ UNCHANGED <<now, nextTick, locs, paths, rooms, inbox, reqs, jobs, hist>>

\* socket.on('disconnect'): the socket has left all its rooms
Disconnect(c) ==
    /\ c \in connected
    /\ connected' = connected \ {c}
    /\ rooms' = [t \in Track |-> LeaveRoom(rooms[t], c)]
    /\ cnt' = [cnt EXCEPT !.conns = @ + 1]
    /\ UNCHANGED <<now, nextTick, locs, paths, inbox, reqs, jobs, hist>>

\* socket.on('track:subscribe')
Subscribe(c, t) ==
    /\ c \in connected
    /\ rooms' = [rooms EXCEPT ![t] = JoinRoom(@, c)]
    /\ inbox' = Deliver(inbox, {c}, Msg("track:subscribed", "self", [trackId |-> t, success |-> TRUE]))
    /\ cnt' = [cnt EXCEPT !.subs = @ + 1]
    /\ UNCHANGED <<now, nextTick, locs, paths, connected, reqs, jobs, hist>>

\* socket.on('track:unsubscribe')
Unsubscribe(c, t) ==
    /\ c \in connected
    /\ rooms' = [rooms EXCEPT ![t] = LeaveRoom(@, c)]
    /\ inbox' = Deliver(inbox, {c}, Msg("track:unsubscribed", "self", [trackId |-> t, success |-> TRUE]))
    /\ cnt' = [cnt EXCEPT !.subs = @ + 1]
    /\ UNCHANGED <<now, nextTick, locs, paths, connected, reqs, jobs, hist>>

\* ------------------------------------------------------------- reads ----
\* GET /api/location/:trackId
LocationResponse(t) ==
    IF ~locs[t].exists
      THEN [op |-> "getLocation", status |-> 404, error |-> "Track ID not found"]
      ELSE [op |-> "getLocation", status |-> 200, trackId |-> t, location |-> locs[t],
            isRecent |-> locs[t].timestamp > now - RecentMs]

\* GET /api/path/:trackId?hours=h
PathResponse(t, h) ==
    IF ~paths[t].exists
      THEN [op |-> "getPath", status |-> 200, trackId |-> t, points |-> <<>>]
      ELSE [op |-> "getPath", status |-> 200, trackId |-> t,
            points |-> SelectSeq(paths[t].points, LAMBDA p : p.timestamp > now - h * HourMs)]

\* the values of the hours query parameter
Hours == {DefaultHours, 24}

\* -------------------------------------------------------- deactivate ----
\* the response of POST /api/location/deactivate/:trackId
DeactivateResponse(t) ==
    IF locs[t].exists
      THEN [op |-> "deactivate", status |-> 200, success |-> TRUE]
      ELSE [op |-> "deactivate", status |-> 404, error |-> "Track ID not found"]

\* Deactivate with {upsert: true}
DeactivateUpsert(t) ==
    /\ locs' = [locs EXCEPT ![t] = UpsertLocation(@, [isActive |-> FALSE], now)]
    /\ UNCHANGED <<now, nextTick, paths, connected, rooms, inbox, reqs, jobs, hist, cnt>>

\* POST /api/location/deactivate/:trackId
Deactivate(t) ==
    /\ IF locs[t].exists
         THEN locs' = [locs EXCEPT ![t] = SetFields(@, [isActive |-> FALSE])]
         ELSE UNCHANGED locs
    /\ UNCHANGED <<now, nextTick, paths, connected, rooms, inbox, reqs, jobs, hist, cnt>>

\* ----------------------------------------------------------- cleanup ----
\* DeleteLocations with $lte
DeleteLocationsLte(coll, cutoff) ==
    [t \in Track |-> IF coll[t].exists /\ coll[t].timestamp <= cutoff THEN NoDoc ELSE coll[t]]

\* Location.deleteMany({timestamp: {$lt: cutoff}})
DeleteLocations(coll, cutoff) ==
    [t \in Track |-> IF coll[t].exists /\ coll[t].timestamp < cutoff THEN NoDoc ELSE coll[t]]

\* PathHistory.deleteMany({lastUpdated: {$lt: cutoff}})
DeletePaths(coll, cutoff) ==
    [t \in Track |-> IF coll[t].exists /\ coll[t].lastUpdated < cutoff THEN NoDoc ELSE coll[t]]

DeletedCount(before, after) ==
    Cardinality({t \in Track : before[t].exists /\ ~after[t].exists})

\* NewJob with the cutoff at the time of the run itself
NewJobNoWindow(at) == [pc |-> "locs", cutoff |-> at, deletedLocations |-> 0, deletedPaths |-> 0]

NewJob(at) == [pc |-> "locs", cutoff |-> at - DayMs, deletedLocations |-> 0, deletedPaths |-> 0]

\* POST /api/cleanup, up to the first await
ManualCleanup ==
    /\ jobs["manual"].pc = "idle"
    /\ jobs' = [jobs EXCEPT !["manual"] = NewJob(now)]
    /\ UNCHANGED <<now, nextTick, locs, paths, connected, rooms, inbox, reqs, hist, cnt>>

\* the setInterval callback, up to the first await
AutoCleanup ==
    /\ now >= nextTick
    /\ jobs["auto"].pc = "idle"
    /\ jobs' = [jobs EXCEPT !["auto"] = NewJob(now)]
    /\ nextTick' = now + HourMs
    /\ UNCHANGED <<now, locs, paths, connected, rooms, inbox, reqs, hist, cnt>>

\* the store applies the first deleteMany of run j
LocsDelete(j) ==
    /\ jobs[j].pc = "locs"
    /\ locs' = DeleteLocations(locs, jobs[j].cutoff)
    /\ jobs' = [jobs EXCEPT ![j].pc = "paths", ![j].deletedLocations = DeletedCount(locs, locs')]
    /\ UNCHANGED <<now, nextTick, paths, connected, rooms, inbox, reqs, hist, cnt>>

\* the store applies the second deleteMany of run j
PathsDelete(j) ==
    /\ jobs[j].pc = "paths"
    /\ paths' = DeletePaths(paths, jobs[j].cutoff)
    /\ hist' = [t \in Track |-> IF paths'[t].exists THEN hist[t] ELSE <<>>]
    /\ jobs' = [jobs EXCEPT ![j].pc = "done", ![j].deletedPaths = DeletedCount(paths, paths')]
    /\ UNCHANGED <<now, nextTick, locs, connected, rooms, inbox, reqs, cnt>>

\* run j resumes after both deletes: logs, and the route responds
CleanupDone(j) ==
    /\ jobs[j].pc = "done"
    /\ jobs' = [jobs EXCEPT ![j] = IdleJob]
    /\ UNCHANGED <<now, nextTick, locs, paths, connected, rooms, inbox, reqs, hist, cnt>>

\* CleanupFail where the rejection ends the interval timer
CleanupFailStops(j) ==
    /\ jobs[j].pc \in {"locs", "paths"}
    /\ jobs' = [jobs EXCEPT ![j] = IdleJob]
    /\ cnt' = [cnt EXCEPT !.fails = @ + 1]
    /\ nextTick' = now + 10 * DayMs
    /\ UNCHANGED <<now, locs, paths, connected, rooms, inbox, reqs, hist>>

\* a deleteMany of run j rejects: catch block
CleanupFail(j) ==
    /\ jobs[j].pc \in {"locs", "paths"}
    /\ jobs' = [jobs EXCEPT ![j] = IdleJob]
    /\ cnt' = [cnt EXCEPT !.fails = @ + 1]
    /\ UNCHANGED <<now, nextTick, locs, paths, connected, rooms, inbox, reqs, hist>>

\* ------------------------------------------------------ bounds of SpecLive ----
MaxLiveDays == 2
MaxLiveUpdates == 1
MaxLiveInFlight == 1

\* ------------------------------------------------------ specification ----
\* the clock
Clock ==
    \/ cnt.ms < MaxMs /\ TickMs
    \/ cnt.days < MaxDays /\ TickDay

\* a request body of ds reaches the REST route
SubmitRest(ds, limit, most) ==
    \E d \in ds :
       /\ RestAccepts(d) => cnt.updates < most /\ Cardinality(InFlight) < limit
       /\ RestUpdate(d)

\* a message of ds reaches the socket handler
SubmitSocket(ds, limit, most) ==
    \E c \in Conn, d \in ds :
       /\ IF SocketAccepts(d)
            THEN cnt.updates < most /\ Cardinality(InFlight) < limit
            ELSE cnt.rejects < MaxRejects
       /\ SocketUpdate(c, d)

\* the store applies the writes of the handlers in flight
StoreSteps ==
    \/ \E r \in Req : PosApply(r)
    \/ \E r \in Req : TrailIssue(r)
    \/ \E r \in Req : TrailApply(r)

\* the REST route completes or fails
RestSteps ==
    \/ \E r \in Req : RestEmit(r)
    \/ \E r \in Req : cnt.fails < MaxFails /\ RestStoreFail(r)

\* the socket handler completes or fails
SocketSteps ==
    \/ \E r \in Req : SocketEmit(r)
    \/ \E r \in Req : cnt.fails < MaxFails /\ SocketStoreFail(r)

\* connections and rooms
Sockets ==
    \/ \E c \in Conn : cnt.conns < MaxPushConns /\ Connect(c)
    \/ \E c \in Conn : cnt.conns < MaxPushConns /\ Disconnect(c)
    \/ \E c \in Conn, t \in Track : cnt.subs < MaxSubs /\ Subscribe(c, t)
    \/ \E c \in Conn, t \in Track : cnt.subs < MaxSubs /\ Unsubscribe(c, t)

\* the cleanup route and the hourly job
Janitor ==
    \/ Cardinality(Running) < MaxJobs /\ ManualCleanup
    \/ Cardinality(Running) < MaxJobs /\ AutoCleanup
    \/ \E j \in Job : LocsDelete(j)
    \/ \E j \in Job : PathsDelete(j)
    \/ \E j \in Job : CleanupDone(j)
    \/ \E j \in Job : cnt.fails < MaxFails /\ CleanupFail(j)

\* the stores: updates, deactivation and cleanup as time passes
Next ==
    \/ Clock
    \/ SubmitRest(Inputs, MaxInFlight, MaxUpdates)
    \/ StoreSteps
    \/ RestSteps
    \/ \E t \in Track : Deactivate(t)
    \/ Janitor

Spec == Init /\ [][Next]_vars

\* the push surface: sockets, rooms and both entry points of the pipeline
NextPush ==
    \/ Sockets
    \/ SubmitRest(BaseInputs, MaxPushInFlight, MaxPushUpdates)
    \/ SubmitSocket(BaseInputs, MaxPushInFlight, MaxPushUpdates)
    \/ StoreSteps
    \/ RestSteps
    \/ SocketSteps

SpecPush == Init /\ [][NextPush]_vars


\* the cap of the trail.  SpecCap starts in the state that SliceCap - 1
\* sequential REST updates of T1, one millisecond apart, lead to from Init:
\* the trail of T1 is one point short of the cap.  From there updates
\* through both entry points, one at a time and one millisecond apart,
\* cleanup runs and the clock interleave.
CapInput == In(Str("T1"), Num(37), Num(-122), Undef, Undef)

\* the time of the k-th update of the fill
FillTime(k) == DayMs + k - 1

FilledPath ==
    [exists |-> TRUE,
     points |-> [i \in 1..(SliceCap - 1) |-> RestPathUpdate(CapInput, FillTime(i)).point],
     lastUpdated |-> RestPathUpdate(CapInput, FillTime(SliceCap - 1)).lastUpdated]

InitCap ==
    /\ now = FillTime(SliceCap - 1)
    /\ nextTick = DayMs + HourMs
    /\ locs = [t \in Track |->
                 IF t = "T1"
                   THEN UpsertLocation(NoDoc, RestLocationUpdate(CapInput, FillTime(SliceCap - 1)),
                                       FillTime(SliceCap - 1))
                   ELSE NoDoc]
    /\ paths = [t \in Track |-> IF t = "T1" THEN FilledPath ELSE NoDoc]
    /\ connected = {}
    /\ rooms = [t \in Track |-> {}]
    /\ inbox = [c \in Conn |-> <<>>]
    /\ reqs = [r \in Req |-> IdleReq]
    /\ jobs = [j \in Job |-> IdleJob]
    /\ hist = [t \in Track |-> IF t = "T1" THEN FilledPath.points ELSE <<>>]
    /\ cnt = [updates |-> SliceCap - 1, rejects |-> 0, ms |-> SliceCap - 2, days |-> 0,
              fails |-> 0, subs |-> 0, conns |-> 0]

CapReady == InFlight = {} /\ cnt.updates < SliceCap + CapExtra /\ cnt.ms = cnt.updates

NextCap ==
    \/ InFlight = {} /\ cnt.ms < cnt.updates /\ TickMs
    \/ CapReady /\ RestUpdate(CapInput)
    \/ StoreSteps
    \/ \E r \in Req : RestEmit(r)
    \/ cnt.conns < MaxCapConns /\ Connect("c1")
    \/ CapReady /\ SocketUpdate("c1", CapInput)
    \/ \E r \in Req : SocketEmit(r)
    \/ cnt.days < MaxDays /\ TickDay
    \/ Janitor

SpecCap == InitCap /\ [][NextCap]_vars

\* the fill itself, from Init
NextFill ==
    \/ InFlight = {} /\ cnt.ms < cnt.updates /\ TickMs
    \/ InFlight = {} /\ cnt.updates < SliceCap - 1 /\ cnt.ms = cnt.updates /\ RestUpdate(CapInput)
    \/ StoreSteps
    \/ \E r \in Req : RestEmit(r)

SpecFill == Init /\ [][NextFill]_vars

\* ------------------------------------------------------------ claims ----
TrackOf(r) == reqs[r].d.trackId.s

\* the messages a step appends to the inbox of c
Received(c) == SubSeq(inbox'[c], Len(inbox[c]) + 1, Len(inbox'[c]))

Count(seq, Test(_)) == Len(SelectSeq(seq, Test))

\* the last n elements of s
LastN(s, n) == IF Len(s) <= n THEN s ELSE SubSeq(s, Len(s) - n + 1, Len(s))

\* C1: in every reachable state, after any interleaving of accepted updates
\* through either entry point and of cleanup runs, every trail holds at most
\* 1000 points.
C1_TrailAtMostCap ==
    \A t \in Track : paths[t].exists => Len(paths[t].points) <= SliceCap

\* a trail at the cap after more than 1000 appends
C1_Witness ==
    /\ paths["T1"].exists
    /\ Len(paths["T1"].points) = SliceCap
    /\ Len(hist["T1"]) = SliceCap + CapExtra

\* C2: after n sequential accepted updates of one track with no cleanup in
\* between, the trail holds exactly the last min(n, 1000) submitted points in
\* arrival order, oldest first: the points dropped are the oldest.
C2_TrailIsLastPoints ==
    \A t \in Track : paths[t].exists => paths[t].points = LastN(hist[t], SliceCap)

\* the oldest point was dropped: the trail starts at the second submitted point
C2_Witness ==
    /\ paths["T1"].exists
    /\ Len(hist["T1"]) = SliceCap + 1
    /\ paths["T1"].points[1] = hist["T1"][2]
    /\ paths["T1"].points[SliceCap] = hist["T1"][SliceCap + 1]

\* C3: immediately after an accepted update has appended its point, the trail
\* of its track holds no point older than 24 hours before the time of that
\* append.
C3_AppendTrimsWindow ==
    \A r \in Req :
       reqs[r].pc = "trailok" /\ paths[TrackOf(r)].exists =>
          \A i \in 1..Len(paths[TrackOf(r)].points) :
             paths[TrackOf(r)].points[i].timestamp >= reqs[r].pathUpd.lastUpdated - DayMs

\* the inputs the claim lists as rejected
Rejectable(d) ==
    \/ d.trackId \in {Str(""), Undef}
    \/ d.lat = Undef
    \/ d.lng = Undef
    \/ d.lat.k = "number" /\ (d.lat.n < -90 \/ d.lat.n > 90)
    \/ d.lng.k = "number" /\ (d.lng.n < -180 \/ d.lng.n > 180)

\* C4: an update rejected by validation, through the REST route or the socket
\* handler, leaves every Position and Trail Record unchanged, starts no write
\* and publishes no location event; on the socket path the only message
\* emitted is one error to the sending connection.
C4_RejectedChangesNothing ==
    [][\A d \in Inputs :
          Rejectable(d) =>
             /\ RestUpdate(d) => UNCHANGED <<locs, paths, reqs, inbox>>
             /\ \A c \in Conn :
                   SocketUpdate(c, d) =>
                      /\ UNCHANGED <<locs, paths, reqs>>
                      /\ \A o \in Conn \ {c} : inbox'[o] = inbox[o]
                      /\ Len(Received(c)) = 1
                      /\ Received(c)[1].ev = "error"]_vars

\* a socket update was rejected while both sockets were connected
C4_Witness ==
    /\ connected = Conn
    /\ cnt.rejects = 1
    /\ cnt.fails = 0
    /\ Len(inbox["c1"]) = 1 /\ inbox["c1"][1].ev = "error"
    /\ inbox["c2"] = <<>>

\* a value that counts as absent
Absent(v) == v.k \in {"undefined", "null"}

\* C5: right after the upsert of an accepted update, reading the position of
\* its track returns lat and lng exactly as submitted, isActive true, and
\* speed and accuracy as submitted or 0 when they were absent.
C5_ReadReflectsUpdate ==
    [][\A r \in Req :
          PosApply(r) =>
             LET d == reqs[r].d
                 res == LocationResponse(TrackOf(r))'
             IN  /\ res.status = 200
                 /\ res.location.lat = d.lat
                 /\ res.location.lng = d.lng
                 /\ res.location.isActive
                 /\ res.location.speed = IF Absent(d.speed) THEN Num(0) ELSE d.speed
                 /\ res.location.accuracy = IF Absent(d.accuracy) THEN Num(0) ELSE d.accuracy]_vars

\* the upsert of an update without speed was applied and can be read
C5_Witness ==
    \E r \in Req :
       /\ reqs[r].pc = "posok"
       /\ reqs[r].d.speed = Undef
       /\ LocationResponse(TrackOf(r)).status = 200
       /\ LocationResponse(TrackOf(r)).location.speed = Num(0)

\* C6: for the same input and the same starting state the REST route and the
\* socket handler are equivalent: same accept or reject outcome, same writes,
\* and the same location events delivered to each connected client.
C6_EntryPointsEquivalent ==
    \A d \in BaseInputs :
       /\ RestAccepts(d) = SocketAccepts(d)
       /\ RestAccepts(d) =>
             /\ RestLocationUpdate(d, now) = SocketLocationUpdate(d, now)
             /\ RestPathUpdate(d, now) = SocketPathUpdate(d, now)
             /\ RestPublish(inbox, d, now) = SocketPublish(inbox, d, now)

IsLocationUpdated(m) == m.ev = "location:updated"
IsRoomDelivery(m) == m.chan = "room"

\* C7: a connection subscribed to track:X receives exactly one
\* location:updated event for each accepted update of X, and an accepted
\* update of another track produces no per-topic delivery to it.
C7_OneEventPerUpdate ==
    [][\A r \in Req :
          RestEmit(r) \/ SocketEmit(r) =>
             \A c \in connected :
                /\ c \in rooms[TrackOf(r)] => Count(Received(c), IsLocationUpdated) = 1
                /\ c \notin rooms[TrackOf(r)] => Count(Received(c), IsRoomDelivery) = 0]_vars

\* C8: subscribing a member again leaves the membership of every room as it
\* is, unsubscribing a non-member too, and an accepted update of a track is
\* delivered through its room once to each connected member, however often
\* the member subscribed.
C8_SubscribeIdempotent ==
    [][/\ \A c \in Conn, t \in Track :
             /\ Subscribe(c, t) /\ c \in rooms[t] => rooms' = rooms
             /\ Unsubscribe(c, t) /\ c \notin rooms[t] => rooms' = rooms
       /\ \A r \in Req :
             SocketEmit(r) =>
                \A c \in Conn :
                   Count(Received(c), IsRoomDelivery) =
                      IF c \in rooms[TrackOf(r)] \cap connected THEN 1 ELSE 0]_vars

IsSubscribedAck(m) == m.ev = "track:subscribed" /\ m.data.trackId = "T1"

\* c1 subscribed twice to T1 and then received one room delivery
C8_Witness ==
    /\ Len(inbox["c1"]) = 5
    /\ IsSubscribedAck(inbox["c1"][1])
    /\ IsSubscribedAck(inbox["c1"][2])
    /\ Count(inbox["c1"], IsRoomDelivery) = 1

\* C9: when a cleanup run completes, no surviving Position Record has a
\* timestamp earlier than its cutoff and no surviving Trail Record a
\* lastUpdated earlier than its cutoff, and the run deleted no record at or
\* after the cutoff.
C9_CleanupAgeBound ==
    [][\A j \in Job :
          /\ LocsDelete(j) =>
                \A t \in Track :
                   locs[t].exists /\ ~locs'[t].exists => locs[t].timestamp < jobs[j].cutoff
          /\ PathsDelete(j) =>
                \A t \in Track :
                   paths[t].exists /\ ~paths'[t].exists => paths[t].lastUpdated < jobs[j].cutoff
          /\ CleanupDone(j) =>
                \A t \in Track :
                   /\ locs'[t].exists => locs'[t].timestamp >= jobs[j].cutoff
                   /\ paths'[t].exists => paths'[t].lastUpdated >= jobs[j].cutoff]_vars

\* a run about to complete that deleted one record of each store and left
\* the records of another track, one of them exactly at the cutoff
C9_Witness ==
    \E j \in Job :
       /\ jobs[j].pc = "done"
       /\ jobs[j].deletedLocations = 1
       /\ jobs[j].deletedPaths = 1
       /\ \E t \in Track : locs[t].exists /\ locs[t].timestamp = jobs[j].cutoff
       /\ \E t \in Track : paths[t].exists

\* C10: every accepted update sets isActive to true; a Position Record that
\* was active becomes inactive only by a deactivation, and a record is
\* created active; cleanup never sets isActive to false.
C10_OnlyDeactivateClears ==
    [][/\ \A r \in Req : PosApply(r) => locs'[TrackOf(r)].isActive
       /\ \A t \in Track :
             /\ ~locs[t].exists /\ locs'[t].exists => locs'[t].isActive
             /\ locs[t].exists /\ locs[t].isActive /\ locs'[t].exists /\ ~locs'[t].isActive
                   => Deactivate(t)]_vars

\* an update of a deactivated track is about to be applied
C10_Witness ==
    \E r \in Req :
       /\ reqs[r].pc = "pos"
       /\ locs[TrackOf(r)].exists
       /\ ~locs[TrackOf(r)].isActive


\* violated under SpecFill: the fill reaches the state SpecCap starts in
\* the hourly job under fairness: REST updates, the clock and the interval
\* timer.  The timer fires its callback once it is due whatever the earlier
\* runs did, the store answers every call it was sent and a handler resumes
\* after its await, and time passes; the store rejects at most MaxFails
\* deleteMany calls and works from then on.
NextLive ==
    \/ cnt.ms < MaxMs /\ TickMs
    \/ cnt.days < MaxLiveDays /\ TickDay
    \/ SubmitRest(BaseInputs, MaxLiveInFlight, MaxLiveUpdates)
    \/ StoreSteps
    \/ \E r \in Req : RestEmit(r)
    \/ AutoCleanup
    \/ LocsDelete("auto")
    \/ PathsDelete("auto")
    \/ CleanupDone("auto")
    \/ cnt.fails < MaxFails /\ CleanupFail("auto")

LiveFairness ==
    /\ WF_vars(cnt.days < MaxLiveDays /\ TickDay)
    /\ WF_vars(StoreSteps)
    /\ WF_vars(\E r \in Req : RestEmit(r))
    /\ WF_vars(AutoCleanup)
    /\ WF_vars(LocsDelete("auto"))
    /\ WF_vars(PathsDelete("auto"))
    /\ WF_vars(CleanupDone("auto"))

SpecLive == Init /\ [][NextLive]_vars /\ LiveFairness

FillNotDone == ~InitCap

\* C11: deactivating a track that has no Position Record answers not found
\* and changes no state: no Position Record is created for it and no other
\* record is modified.
C11_DeactivateUnknown ==
    [][\A t \in Track :
          ~locs[t].exists =>
             /\ DeactivateResponse(t).status = 404
             /\ Deactivate(t) => UNCHANGED vars]_vars

\* T2 is unknown while T1 has a record that a deactivation could touch
C11_Witness ==
    /\ ~locs["T2"].exists
    /\ DeactivateResponse("T2").status = 404
    /\ locs["T1"].exists
    /\ locs["T1"].isActive
    /\ paths["T1"].exists

\* C12: every stored Position Record has a latitude in [-90, 90], a longitude
\* in [-180, 180], a speed >= 0 and an accuracy >= 0, whatever speed and
\* accuracy the accepted updates carried.
C12_PositionBounds ==
    \A t \in Track :
        locs[t].exists =>
           /\ locs[t].lat.k = "number"
           /\ locs[t].lat.n >= -90 /\ locs[t].lat.n <= 90
           /\ locs[t].lng.k = "number"
           /\ locs[t].lng.n >= -180 /\ locs[t].lng.n <= 180
           /\ locs[t].speed.k = "number" /\ locs[t].speed.n >= 0
           /\ locs[t].accuracy.k = "number" /\ locs[t].accuracy.n >= 0

\* handler r has had its Location upsert applied
PosWritten(r) == reqs[r].pc \in {"posok", "trail", "trailok"}

\* handler r has had both of its writes applied
BothWritten(r) == reqs[r].pc = "trailok"

\* what holds of an update that overlaps cleanup runs
C13_UpdateKept(r) ==
    LET t == TrackOf(r)
    IN  /\ \A j \in Running :
              /\ reqs[r].locUpd.timestamp >= jobs[j].cutoff
              /\ reqs[r].pc \in {"trail", "trailok"} =>
                    reqs[r].pathUpd.lastUpdated >= jobs[j].cutoff
        /\ PosWritten(r) =>
              /\ locs[t].exists
              /\ cnt.updates = 1 =>
                    /\ locs[t].lat = reqs[r].locUpd.lat
                    /\ locs[t].lng = reqs[r].locUpd.lng
        /\ BothWritten(r) =>
              /\ paths[t].exists
              /\ \E i \in 1..Len(paths[t].points) :
                    paths[t].points[i] = reqs[r].pathUpd.point
              /\ cnt.updates = 1 =>
                    paths[t].points[Len(paths[t].points)] = reqs[r].pathUpd.point

TrailLen(t) == IF paths[t].exists THEN Len(paths[t].points) ELSE 0

RECURSIVE TotalTrailLen(_)
TotalTrailLen(S) ==
    IF S = {} THEN 0
    ELSE LET t == CHOOSE x \in S : TRUE
         IN  TrailLen(t) + TotalTrailLen(S \ {t})

\* accepted updates whose trail append is not applied yet
TrailPending == {r \in Req : reqs[r].pc \in {"pos", "posok", "trail"}}

\* the Position Record of t carries the fields of one accepted update
FromOneUpdate(t) ==
    \E d \in Inputs :
        /\ RestAccepts(d)
        /\ d.trackId.s = t
        /\ locs[t].lat = d.lat
        /\ locs[t].lng = d.lng
        /\ locs[t].speed = OrZero(d.speed)
        /\ locs[t].accuracy = OrZero(d.accuracy)

C15_TrailSorted ==
    \A t \in Track :
        paths[t].exists =>
           \A i \in 1..Len(paths[t].points), k \in 1..Len(paths[t].points) :
               i < k => paths[t].points[i].timestamp <= paths[t].points[k].timestamp

\* a message produced by one of the location emits
IsLocationEvent(m) == m.chan \in {"global", "room", "legacy"}

\* the step delivers a location event to connection c
GetsLocationEvent(c) ==
    \E i \in 1..Len(Received(c)) : IsLocationEvent(Received(c)[i])

\* both writes of handler r are in the store
WritesStored(r) ==
    /\ BothWritten(r)
    /\ locs[TrackOf(r)].exists
    /\ locs[TrackOf(r)].lat = reqs[r].locUpd.lat
    /\ locs[TrackOf(r)].lng = reqs[r].locUpd.lng
    /\ paths[TrackOf(r)].exists
    /\ \E i \in 1..TrailLen(TrackOf(r)) :
          paths[TrackOf(r)].points[i] = reqs[r].pathUpd.point

\* C16: a location event is published only after both the Position upsert
\* and the Trail append of that update have been applied; when either write
\* fails no location event of that update is delivered to anyone, and the
\* socket sender gets an error event (the REST caller the 500 response).
C16_PublishAfterWrites ==
    [][/\ \A c \in Conn :
             GetsLocationEvent(c) =>
                \E r \in Req :
                    /\ RestEmit(r) \/ SocketEmit(r)
                    /\ WritesStored(r)
                    /\ \A i \in 1..Len(Received(c)) :
                          Received(c)[i].data.lat = reqs[r].d.lat
       /\ \A r \in Req :
             /\ RestEmit(r) \/ SocketEmit(r) => WritesStored(r)
             /\ RestStoreFail(r) => inbox' = inbox /\ reqs'[r] = IdleReq
             /\ SocketStoreFail(r) =>
                   /\ reqs'[r] = IdleReq
                   /\ \A c \in Conn :
                         Received(c) =
                            IF c = reqs[r].conn /\ c \in connected
                              THEN <<ErrorMsg("store")>>
                              ELSE <<>>]_vars

\* the position was written, the trail write failed, the handler is gone and
\* no connected socket has received a location event
C16_Witness ==
    /\ cnt.fails = 1
    /\ cnt.updates = 1
    /\ InFlight = {}
    /\ connected = Conn
    /\ \E t \in Track : locs[t].exists /\ ~paths[t].exists
    /\ \A c \in Conn : \A i \in 1..Len(inbox[c]) : ~IsLocationEvent(inbox[c][i])
    /\ \E c \in Conn : \E i \in 1..Len(inbox[c]) : inbox[c][i] = ErrorMsg("store")

\* the Position Record of t is older than 24 hours
StalePosition(t) == locs[t].exists /\ locs[t].timestamp < now - DayMs

\* the Trail Record of t was last updated more than 24 hours ago
StaleTrail(t) == paths[t].exists /\ paths[t].lastUpdated < now - DayMs

\* the store has rejected its deleteMany calls and works from now on, and
\* the clock has not reached the end of the modelled time
AfterFailedRuns == cnt.fails = MaxFails /\ cnt.days < MaxLiveDays

\* C17: a store failure during a periodic cleanup run does not stop the
\* scheduler: after the failed runs the next tick still executes a cleanup,
\* so once the store works again every record that is stale is eventually
\* deleted (or replaced by a newer update).
C17_CleanupResumes ==
    \A t \in Track :
        /\ (AfterFailedRuns /\ StalePosition(t)) ~> ~StalePosition(t)
        /\ (AfterFailedRuns /\ StaleTrail(t)) ~> ~StaleTrail(t)

\* a run of the hourly job failed on an earlier day, and the run of a later
\* tick has deleted the Position Record of a track written before both
C17_Witness ==
    /\ cnt.fails = MaxFails
    /\ cnt.days = 2
    /\ jobs["auto"].pc = "paths"
    /\ jobs["auto"].deletedLocations = 1
    /\ \E t \in Track :
          /\ ~locs[t].exists
          /\ StaleTrail(t)
          /\ paths[t].lastUpdated < 2 * DayMs

\* C18: when a cleanup run completes, every surviving Trail Record contains
\* no point older than 24 hours before the run.
C18_CleanupTrimsPoints ==
    [][\A j \in Job :
          CleanupDone(j) =>
             \A t \in Track :
                 paths'[t].exists =>
                    \A i \in 1..Len(paths'[t].points) :
                        paths'[t].points[i].timestamp >= jobs[j].cutoff]_vars

\* C19: whenever no update of a track is in flight and both of its records
\* exist, the Position Record's lat and lng equal those of the last point of
\* its Trail Record, for every interleaving of concurrent updates (no store
\* call having failed).
C19_PositionIsLastPoint ==
    \A t \in Track :
        /\ cnt.fails = 0
        /\ \A r \in InFlight : TrackOf(r) # t
        /\ locs[t].exists
        /\ paths[t].exists
        => /\ locs[t].lat = paths[t].points[Len(paths[t].points)].lat
           /\ locs[t].lng = paths[t].points[Len(paths[t].points)].lng

\* C20: whenever no update and no cleanup is in flight and no store write
\* has failed, a track has a Position Record exactly when it has a Trail
\* Record.
C20_RecordsTogether ==
    Quiet /\ cnt.fails = 0 =>
       \A t \in Track : locs[t].exists <=> paths[t].exists

====
